---------------------------- MODULE Spec2Model ----------------------------
(***************************************************************************)
(* A model of the screen components of src/components/common: the Sidebar, *)
(* CreateCourseModal and CreatePostModal.  Each component is a React       *)
(* function component: its state is the useState cells, its operations are *)
(* the event handlers.  An async handler runs synchronously up to its next *)
(* await; each await that waits for the backend is a separate step of the  *)
(* model, taken when the backend answers.  Rendering is a function of the  *)
(* state: a button's disabled prop is evaluated on the current state.      *)
(*                                                                         *)
(* Strings are sequences of one-character strings, so that trim(),         *)
(* toLowerCase() and includes() are computed and not assumed.              *)
(***************************************************************************)
EXTENDS Integers, Sequences, FiniteSets, TLC

(***************************************************************************)
(* Bounds of the model.                                                    *)
(***************************************************************************)
\* handlePost submissions followed in one behaviour
MaxPosts == 2
\* media pickers of CreatePostModal open at the same time
MaxPickers == 1
\* runs of fetchJoinedCommunities followed in one behaviour
MaxFetches == 2
\* changes of table community_members followed in one behaviour
MaxChanges == 2
\* sections of the course form
MaxSections == 2
\* lessons of the course form, over all its sections
MaxLessons == 2
\* handleCreate runs followed in one behaviour
MaxRuns == 1
\* characters of a community name and of a search query
MaxStrLen == 2
\* communities of a fetched list whose display is checked
MaxListLen == 2
\* milliseconds of the clock followed during a run of handleCreate
MaxClock == 1

NULL == "null"

(***************************************************************************)
(* Strings.                                                                *)
(***************************************************************************)
Whitespace == {" "}

RECURSIVE TrimStart(_)
TrimStart(s) ==
  IF s = << >> THEN s
  ELSE IF Head(s) \in Whitespace THEN TrimStart(Tail(s)) ELSE s

RECURSIVE TrimEnd(_)
TrimEnd(s) ==
  IF s = << >> THEN s
  ELSE IF s[Len(s)] \in Whitespace THEN TrimEnd(SubSeq(s, 1, Len(s) - 1)) ELSE s

\* String.prototype.trim
Trim(s) == TrimEnd(TrimStart(s))

\* !s.trim(): the empty string is falsy
IsBlank(s) == Trim(s) = << >>

(***************************************************************************)
(* State.                                                                  *)
(***************************************************************************)
VARIABLES
  \* Sidebar
  user,              \* useAuth().user: NULL or the signed-in user
  mounted,           \* "init" before the effects ran, "mounted", "unmounted"
  communities,       \* useState<Community[]>([])
  searchQuery,       \* useState('')
  loading,           \* useState(true)
  activeCommunityId, \* useActiveCommunity().activeCommunityId
  selected,          \* the community of the last List.Item the user pressed,
                     \* NULL before any press
  channel,           \* the realtime subscription: whether it is on, and what
                     \* the callback's fetchJoinedCommunities closed over
  fetches,           \* fetchJoinedCommunities runs awaiting the backend
  nextFetch,         \* the number the next run of fetchJoinedCommunities gets
  members,           \* table community_members: the rows with status 'active'
  notices,           \* change notifications the backend has not delivered yet
  delivered,         \* change notifications delivered to the callback
  done,              \* the runs that completed without error, in the order
                     \* they completed, with what the backend answered them
  sidebarAlert,      \* the last alert() of the Sidebar, NULL before any
  \* CreateCourseModal
  courseTitle,    \* courseData.title, useState({title: '', ...})
  sections,       \* useState([]): the section objects, each with its lessons;
                  \* the handlers change these objects in place
  courseLoading,  \* loading, useState(false)
  runLen,         \* the length of the sections array the running (or last)
                  \* handleCreate closed over
  courseReqs,     \* remote operations of handleCreate awaiting their answer
  courseLog,      \* the remote operations of the running (or last) handleCreate:
                  \* each start and each answer, in order
  courseAlerts,   \* the alert()s of the running (or last) handleCreate, in order
  courseCalls,    \* the caller's callbacks it called, in order
  courseRuns,     \* handleCreate runs that passed validation
  now,            \* Date.now(), in milliseconds from the origin
  paths,          \* the file paths uploadVideo made in the running (or last)
                  \* handleCreate, in order, each with its lesson
  \* CreatePostModal
  content,        \* useState('')
  postType,       \* useState('General')
  isLoading,      \* useState(false)
  mediaType,      \* useState('none')
  mediaUri,       \* useState(null)
  postReqs,       \* inserts into 'posts' awaiting the backend's answer
  postStarted,    \* handlePost runs that reached the insert
  postSucceeded,  \* inserts into 'posts' the backend accepted
  postCalls,      \* the caller's callbacks, in the order they were called
  postAlert,      \* the last alert() of CreatePostModal, NULL before any
  pickers,        \* pickMedia runs awaiting the picker: the type asked for
  postPress       \* what the last press of the Post button did

postVars == << content, postType, isLoading, mediaType, mediaUri, postReqs,
               postStarted, postSucceeded, postCalls, postAlert, pickers,
               postPress >>

sidebarVars == << user, mounted, communities, searchQuery, loading,
                  activeCommunityId, selected, channel, fetches, nextFetch, members,
                  notices, delivered, done, sidebarAlert >>

courseVars == << courseTitle, sections, courseLoading, runLen, courseReqs,
                 courseLog, courseAlerts, courseCalls, courseRuns, now, paths >>

vars == << sidebarVars, courseVars, postVars >>

\* what an action of one component leaves alone: the other components
notSidebarVars == << courseVars, postVars >>
notCourseVars == << sidebarVars, postVars >>
notPostVars == << sidebarVars, courseVars >>

(***************************************************************************)
(* CreatePostModal.                                                        *)
(***************************************************************************)
\* the texts typed into the content field
PostContents == { << >>, << " " >>, << "a" >>, << " ", "a", " " >> }
PostTypes == { "General", "Question", "Discussion" }
MediaUris == { "file1", "file2" }

PostInit ==
  /\ content = << >>
  /\ postType = "General"
  /\ isLoading = FALSE
  /\ mediaType = "none"
  /\ mediaUri = NULL
  /\ postReqs = << >>
  /\ postStarted = 0
  /\ postSucceeded = 0
  /\ postCalls = << >>
  /\ postAlert = NULL
  /\ pickers = << >>
  /\ postPress = "none"

\* onChangeText={setContent}
SetContent(text) ==
  /\ content' = text
  /\ UNCHANGED << postType, isLoading, mediaType, mediaUri, postReqs,
                  postStarted, postSucceeded, postCalls, postAlert, pickers,
                  postPress >>
  /\ UNCHANGED notPostVars

\* the Menu.Item onPress handlers
SetPostType(t) ==
  /\ postType' = t
  /\ UNCHANGED << content, isLoading, mediaType, mediaUri, postReqs,
                  postStarted, postSucceeded, postCalls, postAlert, pickers,
                  postPress >>
  /\ UNCHANGED notPostVars

\* (mutant) the Post button stays enabled while a submission is in flight
PostDisabledNoLoading == IsBlank(content)

\* the Post button's disabled prop
PostDisabled == IsBlank(content) \/ isLoading

\* handlePost up to its await: the early return, setIsLoading(true), the insert
handlePost ==
  /\ ~IsBlank(content)
  /\ isLoading' = TRUE
  /\ postReqs' = Append(postReqs, [content |-> Trim(content)])
  /\ postStarted' = postStarted + 1

\* a press of the Post button: an enabled button calls handlePost
PressPost ==
  /\ postStarted < MaxPosts
  /\ ~PostDisabled
  /\ handlePost
  /\ postPress' = "started"
  /\ UNCHANGED << content, postType, mediaType, mediaUri, postSucceeded,
                  postCalls, postAlert, pickers >>
  /\ UNCHANGED notPostVars

\* a press of the Post button while it is disabled: the press is dropped
PressPostDisabled ==
  /\ PostDisabled
  /\ postPress' = "dropped"
  /\ UNCHANGED << content, postType, isLoading, mediaType, mediaUri, postReqs,
                  postStarted, postSucceeded, postCalls, postAlert, pickers >>
  /\ UNCHANGED notPostVars

\* what handlePost does after a successful insert
PostSuccess ==
  /\ content' = << >>
  /\ mediaUri' = NULL
  /\ mediaType' = "none"
  /\ postType' = "General"
  /\ postCalls' = postCalls \o << "onPost", "onDismiss" >>
  /\ UNCHANGED postAlert

\* (mutant) the form is cleared before the insert's error is looked at
PostFailureResets ==
  /\ postAlert' = "Failed to create post. Please try again."
  /\ content' = << >>
  /\ mediaUri' = NULL
  /\ mediaType' = "none"
  /\ postType' = "General"
  /\ UNCHANGED postCalls

\* what handlePost does when the insert failed: the catch block
PostFailure ==
  /\ postAlert' = "Failed to create post. Please try again."
  /\ UNCHANGED << content, mediaUri, mediaType, postType, postCalls >>

\* the backend answers insert i: handlePost resumes after its await
PostInsertDone(i, ok) ==
  /\ i \in 1..Len(postReqs)
  /\ postReqs' = SubSeq(postReqs, 1, i - 1) \o SubSeq(postReqs, i + 1, Len(postReqs))
  /\ IF ok THEN PostSuccess ELSE PostFailure
  /\ postSucceeded' = IF ok THEN postSucceeded + 1 ELSE postSucceeded
  /\ isLoading' = FALSE
  /\ UNCHANGED << postStarted, pickers, postPress >>
  /\ UNCHANGED notPostVars

\* pickMedia up to the picker's answer
PickMediaStart(type) ==
  /\ Len(pickers) < MaxPickers
  /\ pickers' = Append(pickers, type)
  /\ UNCHANGED << content, postType, isLoading, mediaType, mediaUri, postReqs,
                  postStarted, postSucceeded, postCalls, postAlert, postPress >>
  /\ UNCHANGED notPostVars

\* pickMedia resumes: permission denied, the picker cancelled, failed, or a file
PickOutcomes == { "denied", "canceled", "error" } \cup MediaUris
PickMediaDone(i, outcome) ==
  /\ i \in 1..Len(pickers)
  /\ pickers' = SubSeq(pickers, 1, i - 1) \o SubSeq(pickers, i + 1, Len(pickers))
  /\ IF outcome \in MediaUris
       THEN /\ mediaUri' = outcome
            /\ mediaType' = pickers[i]
            /\ UNCHANGED postAlert
       ELSE /\ postAlert' =
                 CASE outcome = "denied" ->
                        "Sorry, we need camera roll permissions to make this work!"
                   [] outcome = "error" -> "Failed to pick media"
                   [] OTHER -> postAlert
            /\ UNCHANGED << mediaUri, mediaType >>
  /\ UNCHANGED << content, postType, isLoading, postReqs, postStarted,
                  postSucceeded, postCalls, postPress >>
  /\ UNCHANGED notPostVars

\* (mutant) the remove-media button clears the uri only
RemoveMediaUriOnly ==
  /\ mediaUri # NULL
  /\ mediaUri' = NULL
  /\ UNCHANGED mediaType
  /\ UNCHANGED << content, postType, isLoading, postReqs, postStarted,
                  postSucceeded, postCalls, postAlert, pickers, postPress >>
  /\ UNCHANGED notPostVars

\* the remove-media button, rendered while mediaUri is set
RemoveMedia ==
  /\ mediaUri # NULL
  /\ mediaUri' = NULL
  /\ mediaType' = "none"
  /\ UNCHANGED << content, postType, isLoading, postReqs, postStarted,
                  postSucceeded, postCalls, postAlert, pickers, postPress >>
  /\ UNCHANGED notPostVars

PostNext ==
  \/ \E text \in PostContents : SetContent(text)
  \/ \E t \in PostTypes : SetPostType(t)
  \/ PressPost
  \/ PressPostDisabled
  \/ \E i \in 1..Len(postReqs), ok \in BOOLEAN : PostInsertDone(i, ok)
  \/ \E type \in { "image", "video" } : PickMediaStart(type)
  \/ \E i \in 1..Len(pickers), o \in PickOutcomes : PickMediaDone(i, o)
  \/ RemoveMedia

(***************************************************************************)
(* Sidebar.                                                                *)
(***************************************************************************)
Users == { "u1", "u2" }
CommunityIds == { "c1", "c2" }
\* table communities: the name of each row
CommunityName(c) == IF c = "c1" THEN << "A", "b" >> ELSE << "b", "a" >>

\* the active rows of community_members when the Sidebar is constructed
InitialMembers ==
  { {}, { << "u1", "c1" >>, << "u1", "c2" >>, << "u2", "c2" >> } }

SidebarInit ==
  /\ user \in Users \cup { NULL }
  /\ mounted = "init"
  /\ communities = << >>
  /\ searchQuery = << >>
  /\ loading = TRUE
  /\ activeCommunityId = NULL
  /\ selected = NULL
  /\ channel = [on |-> FALSE, user |-> NULL, active |-> NULL]
  /\ fetches = {}
  /\ nextFetch = 1
  /\ members \in InitialMembers
  /\ notices = 0
  /\ delivered = 0
  /\ done = << >>
  /\ sidebarAlert = NULL

\* the sequences that list each element of set S once
Orders(S) ==
  { q \in [1..Cardinality(S) -> S] : \A i, j \in 1..Cardinality(S) : q[i] = q[j] => i = j }

\* fetchJoinedCommunities of a render that saw user u and active community a, up
\* to its first await: nothing at all without a user, else the membership query
fetchJoinedCommunities(u, a) ==
  IF u = NULL
    THEN UNCHANGED << fetches, nextFetch >>
    ELSE /\ fetches' = fetches \cup
               { [id |-> nextFetch, user |-> u, active |-> a, phase |-> 1,
                  ids |-> {}, data |-> << >>] }
         /\ nextFetch' = nextFetch + 1

\* whether a run of fetchJoinedCommunities for user u can still be followed
CanFetch(u) == u = NULL \/ nextFetch <= MaxFetches

\* the component mounts: both effects run.  The subscription's callback keeps
\* the fetchJoinedCommunities of this first render (the effect's deps are [])
Mount ==
  /\ mounted = "init"
  /\ CanFetch(user)
  /\ mounted' = "mounted"
  /\ fetchJoinedCommunities(user, activeCommunityId)
  /\ channel' = [on |-> TRUE, user |-> user, active |-> activeCommunityId]
  /\ UNCHANGED << user, communities, searchQuery, loading, activeCommunityId, selected,
                  members, notices, delivered, done, sidebarAlert >>
  /\ UNCHANGED notSidebarVars

\* the auth context hands a new user (sign-in, sign-out): the effect with
\* deps [user] runs the fetchJoinedCommunities of the new render
UserChange(u) ==
  /\ mounted = "mounted"
  /\ u # user
  /\ CanFetch(u)
  /\ user' = u
  /\ fetchJoinedCommunities(u, activeCommunityId)
  /\ UNCHANGED << mounted, communities, searchQuery, loading, activeCommunityId, selected,
                  channel, members, notices, delivered, done, sidebarAlert >>
  /\ UNCHANGED notSidebarVars

\* the component unmounts: the subscription effect's cleanup removes the channel
Unmount ==
  /\ mounted = "mounted"
  /\ mounted' = "unmounted"
  /\ channel' = [channel EXCEPT !.on = FALSE]
  /\ UNCHANGED << user, communities, searchQuery, loading, activeCommunityId, selected,
                  fetches, nextFetch, members, notices, delivered, done,
                  sidebarAlert >>
  /\ UNCHANGED notSidebarVars

\* a row of community_members becomes active or stops being active (any client)
MembershipChange(u, c) ==
  /\ notices + delivered < MaxChanges
  /\ members' = IF << u, c >> \in members THEN members \ { << u, c >> }
                                          ELSE members \cup { << u, c >> }
  /\ notices' = notices + 1
  /\ UNCHANGED << user, mounted, communities, searchQuery, loading,
                  activeCommunityId, selected, channel, fetches, nextFetch, delivered,
                  done, sidebarAlert >>
  /\ UNCHANGED notSidebarVars

\* the backend delivers a change notification: the subscription's callback runs
\* the fetchJoinedCommunities it closed over
Notify ==
  /\ notices > 0
  /\ channel.on
  /\ CanFetch(channel.user)
  /\ notices' = notices - 1
  /\ delivered' = delivered + 1
  /\ fetchJoinedCommunities(channel.user, channel.active)
  /\ UNCHANGED << user, mounted, communities, searchQuery, loading,
                  activeCommunityId, selected, channel, members, done, sidebarAlert >>
  /\ UNCHANGED notSidebarVars

\* a state setter of an unmounted component does nothing
SetState(new, old) == IF mounted = "mounted" THEN new ELSE old

\* the catch and finally blocks of fetchJoinedCommunities
FetchFailed(f) ==
  /\ fetches' = fetches \ { f }
  /\ sidebarAlert' = "Failed to load communities"
  /\ loading' = SetState(FALSE, loading)
  /\ UNCHANGED << communities, activeCommunityId, selected, done >>

\* the first query answers: the ids of the communities the user is active in
FetchMembership(f, ok) ==
  /\ f \in fetches /\ f.phase = 1
  /\ IF ok
       THEN /\ fetches' = (fetches \ { f }) \cup
                 { [f EXCEPT !.phase = 2,
                             !.ids = { c \in CommunityIds : << f.user, c >> \in members }] }
            /\ UNCHANGED << communities, activeCommunityId, selected, done, sidebarAlert, loading >>
       ELSE FetchFailed(f)
  /\ UNCHANGED << user, mounted, searchQuery, channel, nextFetch, members,
                  notices, delivered >>
  /\ UNCHANGED notSidebarVars

\* the second query answers: the rows of those communities, in the backend's order
FetchCommunities(f, ok, rows) ==
  /\ f \in fetches /\ f.phase = 2
  /\ rows \in Orders(f.ids)
  /\ IF ok
       THEN /\ fetches' = (fetches \ { f }) \cup { [f EXCEPT !.phase = 3, !.data = rows] }
            /\ UNCHANGED << communities, activeCommunityId, selected, done, sidebarAlert, loading >>
       ELSE FetchFailed(f)
  /\ UNCHANGED << user, mounted, searchQuery, channel, nextFetch, members,
                  notices, delivered >>
  /\ UNCHANGED notSidebarVars

\* (mutant) every returned row is counted for every community
MemberCountAll(allMembers, communityId) == Cardinality(allMembers)

\* allMembers.filter(m => m.community_id === communityId).length, over the rows
\* the third query returned
MemberCount(allMembers, communityId) ==
  Cardinality({ m \in allMembers : m[2] = communityId })

\* communityIds.reduce(...): the count of each id the first query returned
memberCounts(communityIds, allMembers) ==
  [ communityId \in communityIds |-> MemberCount(allMembers, communityId) ]

\* communitiesData.map(community =>
\*   ({...community, member_count: memberCounts[community.id] || 0}))
CommunitiesWithCounts(communitiesData, counts) ==
  [ i \in 1..Len(communitiesData) |->
      [id |-> communitiesData[i], name |-> CommunityName(communitiesData[i]),
       member_count |->
         IF communitiesData[i] \in DOMAIN counts /\ counts[communitiesData[i]] # 0
           THEN counts[communitiesData[i]] ELSE 0] ]

\* (mutant) the fetched communities are merged into the list
SetCommunitiesMerge(old, result) == old \o result

\* setCommunities(communitiesWithCounts)
SetCommunities(old, result) == result

\* the third query answers: the counts are combined, the list is set, the first
\* community becomes active when the run's render saw none, loading ends
FetchMembers(f, ok) ==
  /\ f \in fetches /\ f.phase = 3
  /\ IF ok
       THEN LET allMembers == { m \in members : m[2] \in f.ids }
                result == CommunitiesWithCounts(f.data, memberCounts(f.ids, allMembers))
            IN /\ fetches' = fetches \ { f }
               /\ communities' = SetState(SetCommunities(communities, result), communities)
               /\ activeCommunityId' =
                    IF f.active = NULL /\ Len(result) > 0
                      THEN result[1].id ELSE activeCommunityId
               /\ loading' = SetState(FALSE, loading)
               /\ done' = Append(done, [id |-> f.id, data |-> f.data, rows |-> allMembers])
               /\ UNCHANGED << sidebarAlert, selected >>
       ELSE FetchFailed(f)
  /\ UNCHANGED << user, mounted, searchQuery, channel, nextFetch, members,
                  notices, delivered >>
  /\ UNCHANGED notSidebarVars

\* List.Item onPress: the user selects a displayed community
SelectCommunity(i) ==
  /\ mounted = "mounted" /\ ~loading
  /\ i \in 1..Len(communities)
  /\ activeCommunityId' = communities[i].id
  /\ selected' = communities[i].id
  /\ UNCHANGED << user, mounted, communities, searchQuery, loading, channel,
                  fetches, nextFetch, members, notices, delivered, done,
                  sidebarAlert >>
  /\ UNCHANGED notSidebarVars

\* the letters of names and queries
Letters == { "a", "A", "b" }

\* String.prototype.toLowerCase
LowerChar(ch) == IF ch = "A" THEN "a" ELSE IF ch = "B" THEN "b" ELSE ch
ToLowerCase(str) == [ i \in 1..Len(str) |-> LowerChar(str[i]) ]

\* (mutant) the query is not lower-cased
SameCase(str) == str

\* searchQuery.toLowerCase()
LowerQuery(str) == ToLowerCase(str)

\* str.startsWith(q, from): q is read off str from position from
RECURSIVE MatchesAt(_, _, _)
MatchesAt(str, q, from) ==
  IF q = << >> THEN TRUE
  ELSE IF from > Len(str) THEN FALSE
  ELSE IF str[from] # Head(q) THEN FALSE
  ELSE MatchesAt(str, Tail(q), from + 1)

\* String.prototype.includes: the first position from which q is read off
RECURSIVE IncludesFrom(_, _, _)
IncludesFrom(str, q, from) ==
  IF from + Len(q) - 1 > Len(str) THEN FALSE
  ELSE IF MatchesAt(str, q, from) THEN TRUE
  ELSE IncludesFrom(str, q, from + 1)
Includes(str, q) == IncludesFrom(str, q, 1)

\* communities.filter(community =>
\*   community.name.toLowerCase().includes(searchQuery.toLowerCase()))
filteredCommunities ==
  SelectSeq(communities,
            LAMBDA community : Includes(ToLowerCase(community.name), LowerQuery(searchQuery)))

\* the List.Items rendered: none while loading
DisplayedCommunities == IF loading THEN << >> ELSE filteredCommunities

\* onChangeText={setSearchQuery}
SetSearchQuery(text) ==
  /\ searchQuery' = text
  /\ UNCHANGED << user, mounted, communities, loading, activeCommunityId, selected, channel,
                  fetches, nextFetch, members, notices, delivered, done,
                  sidebarAlert >>
  /\ UNCHANGED notSidebarVars

\* the strings of at most n letters
RECURSIVE Strings(_)
Strings(n) ==
  IF n = 0 THEN { << >> }
  ELSE Strings(n - 1) \cup
       { Append(str, ch) : str \in { t \in Strings(n - 1) : Len(t) = n - 1 }, ch \in Letters }

\* the lists of at most n communities, with any names
RECURSIVE CommunityLists(_)
CommunityLists(n) ==
  IF n = 0 THEN { << >> }
  ELSE CommunityLists(n - 1) \cup
       { Append(list, [id |-> n, name |-> name, member_count |-> 1]) :
           list \in { t \in CommunityLists(n - 1) : Len(t) = n - 1 },
           name \in Strings(MaxStrLen) }

SidebarNext ==
  \/ Mount
  \/ \E u \in Users \cup { NULL } : UserChange(u)
  \/ Unmount
  \/ \E u \in Users, c \in CommunityIds : MembershipChange(u, c)
  \/ Notify
  \/ \E f \in fetches, ok \in BOOLEAN : FetchMembership(f, ok)
  \/ \E f \in fetches, ok \in BOOLEAN : \E rows \in Orders(f.ids) : FetchCommunities(f, ok, rows)
  \/ \E f \in fetches, ok \in BOOLEAN : FetchMembers(f, ok)
  \/ \E i \in 1..Len(communities) : SelectCommunity(i)

(***************************************************************************)
(* CreateCourseModal.                                                      *)
(***************************************************************************)
\* the texts typed into a title field
Titles == { << >>, << " " >>, << "a" >> }
\* the file the video picker returns
VideoUri == "video1"

CourseInit ==
  /\ courseTitle = << >>
  /\ sections = << >>
  /\ courseLoading = FALSE
  /\ runLen = 0
  /\ courseReqs = {}
  /\ courseLog = << >>
  /\ courseAlerts = << >>
  /\ courseCalls = << >>
  /\ courseRuns = 0
  /\ now = 0
  /\ paths = << >>

RECURSIVE LessonCount(_)
LessonCount(secs) ==
  IF secs = << >> THEN 0 ELSE Len(Head(secs).lessons) + LessonCount(Tail(secs))

\* user input is followed until the last followed run of handleCreate has ended
FormOpen == courseRuns < MaxRuns \/ courseReqs # {}

\* onChangeText of the Course Title field
SetCourseTitle(text) ==
  /\ FormOpen
  /\ courseTitle' = text
  /\ UNCHANGED << sections, courseLoading, runLen, courseReqs, courseLog, paths,
                  courseAlerts, courseCalls, courseRuns, now >>
  /\ UNCHANGED notCourseVars

\* handleAddSection: a new array with the same section objects and one more
handleAddSection ==
  /\ FormOpen
  /\ Len(sections) < MaxSections
  /\ sections' = Append(sections, [title |-> << >>, lessons |-> << >>])
  /\ UNCHANGED << courseTitle, courseLoading, runLen, courseReqs, courseLog, paths,
                  courseAlerts, courseCalls, courseRuns, now >>
  /\ UNCHANGED notCourseVars

\* handleAddLesson: pushes onto the lessons array of the section object itself
handleAddLesson(sectionIndex) ==
  /\ FormOpen
  /\ sectionIndex \in 1..Len(sections)
  /\ LessonCount(sections) < MaxLessons
  /\ sections' = [sections EXCEPT ![sectionIndex].lessons =
                    Append(@, [title |-> << >>, videoUri |-> NULL])]
  /\ UNCHANGED << courseTitle, courseLoading, runLen, courseReqs, courseLog, paths,
                  courseAlerts, courseCalls, courseRuns, now >>
  /\ UNCHANGED notCourseVars

\* onChangeText of a Section Title field: assigns to the section object itself
SetSectionTitle(sectionIndex, text) ==
  /\ FormOpen
  /\ sectionIndex \in 1..Len(sections)
  /\ sections' = [sections EXCEPT ![sectionIndex].title = text]
  /\ UNCHANGED << courseTitle, courseLoading, runLen, courseReqs, courseLog, paths,
                  courseAlerts, courseCalls, courseRuns, now >>
  /\ UNCHANGED notCourseVars

\* onChangeText of a Lesson Title field: assigns to the lesson object itself
SetLessonTitle(sectionIndex, lessonIndex, text) ==
  /\ FormOpen
  /\ sectionIndex \in 1..Len(sections)
  /\ lessonIndex \in 1..Len(sections[sectionIndex].lessons)
  /\ sections' = [sections EXCEPT ![sectionIndex].lessons[lessonIndex].title = text]
  /\ UNCHANGED << courseTitle, courseLoading, runLen, courseReqs, courseLog, paths,
                  courseAlerts, courseCalls, courseRuns, now >>
  /\ UNCHANGED notCourseVars

\* handleVideoSelect when the picker returns a file (the picker covers the form
\* while it is open; a refusal, a cancel or an error changes no state)
handleVideoSelect(sectionIndex, lessonIndex) ==
  /\ FormOpen
  /\ sectionIndex \in 1..Len(sections)
  /\ lessonIndex \in 1..Len(sections[sectionIndex].lessons)
  /\ sections' = [sections EXCEPT ![sectionIndex].lessons[lessonIndex].videoUri = VideoUri]
  /\ UNCHANGED << courseTitle, courseLoading, runLen, courseReqs, courseLog, paths,
                  courseAlerts, courseCalls, courseRuns, now >>
  /\ UNCHANGED notCourseVars

\* the Create button's disabled prop
CreateDisabled == courseLoading \/ IsBlank(courseTitle)

\* if (!section.title.trim()) continue
SkipSection(section) == IsBlank(section.title)

\* (mutant) the lesson loop does not test videoUri
SkipLessonTitleOnly(lesson) == IsBlank(lesson.title)

\* if (!lesson.title.trim() || !lesson.videoUri) continue
SkipLesson(lesson) == IsBlank(lesson.title) \/ lesson.videoUri = NULL

\* the lesson loop from index l on: the first lesson it does not skip, 0 if none.
\* The loop iterates the section object's own lessons array, as it is now
RECURSIVE FirstLesson(_, _)
FirstLesson(s, l) ==
  IF l > Len(sections[s].lessons) THEN 0
  ELSE IF SkipLesson(sections[s].lessons[l]) THEN FirstLesson(s, l + 1)
  ELSE l

\* the section loop from index s on: the first section it does not skip, 0 if
\* none.  The loop iterates the array handleCreate closed over
RECURSIVE FirstSection(_)
FirstSection(s) ==
  IF s > runLen THEN 0
  ELSE IF SkipSection(sections[s]) THEN FirstSection(s + 1)
  ELSE s

Op(kind, s, l, title) == [kind |-> kind, s |-> s, l |-> l, title |-> title]
Event(ev, op) == [ev |-> ev, kind |-> op.kind, s |-> op.s, l |-> op.l, title |-> op.title]

\* (mutant) uploadVideo is not awaited: the lesson's insert is issued with it
EnterLessonNoAwait(s, l) ==
  { Op("upload", s, l, Trim(sections[s].lessons[l].title)),
    Op("lesson", s, l, Trim(sections[s].lessons[l].title)) }

\* the remote operations a lesson's try block issues on entry: the upload, which
\* is awaited before the insert
EnterLesson(s, l) == { Op("upload", s, l, Trim(sections[s].lessons[l].title)) }

\* the insert that creates section s
EnterSection(s) == { Op("section", s, 0, Trim(sections[s].title)) }

\* handleCreate goes on, without an await, from the end of lesson l of section s
\* (l = 0: from the section's insert; s = 0: from the course's insert) to its
\* next await, or to its end.  ops: what it issues, and whether it ended
ContinueFrom(s, l) ==
  LET l2 == IF s = 0 THEN 0 ELSE FirstLesson(s, l + 1)
      s2 == FirstSection(s + 1)
  IN IF l2 # 0 THEN [ops |-> EnterLesson(s, l2), ended |-> FALSE]
     ELSE IF s2 # 0 THEN [ops |-> EnterSection(s2), ended |-> FALSE]
     ELSE [ops |-> {}, ended |-> TRUE]

\* uploadVideo's filePath for the clock value t: `course-videos/${t}.mp4`
FilePath(t) == << "course-videos/", t, ".mp4" >>

\* the file paths uploadVideo makes for the uploads among the operations issued:
\* each from Date.now() as it reads when uploadVideo is called
RECURSIVE UploadPaths(_)
UploadPaths(ops) ==
  IF ops = {} THEN << >>
  ELSE LET op == CHOOSE o \in ops : TRUE
       IN (IF op.kind = "upload"
             THEN << [s |-> op.s, l |-> op.l, path |-> FilePath(now)] >>
             ELSE << >>) \o UploadPaths(ops \ { op })

\* the events of a set of operations issued together
RECURSIVE StartEvents(_)
StartEvents(ops) ==
  IF ops = {} THEN << >>
  ELSE LET op == CHOOSE o \in ops : \A q \in ops : o.kind = "upload" \/ q.kind # "upload"
       IN << Event("start", op) >> \o StartEvents(ops \ { op })

\* the callbacks handleCreate has called once its try block reached its end
CallsOnSuccess(calls) == calls \o << "onSuccess", "onDismiss" >>

\* (mutant) onDismiss is called in the outer catch block too
CallsOnFailureDismiss(calls) == calls \o << "onDismiss" >>

\* the callbacks handleCreate has called once its outer catch block ran
CallsOnFailure(calls) == calls

Alert(kind, s, l, title) == [kind |-> kind, s |-> s, l |-> l, title |-> title]

\* handleCreate resumes with the answer to op, logged as event ev, and goes on
\* to its next await or to its end.  alerts: the alerts so far, with that of the
\* lesson's catch block when the answer was a lesson's failure
Proceed(op, ev, alerts) ==
  LET next == ContinueFrom(op.s, op.l)
  IN /\ courseReqs' = (courseReqs \ { op }) \cup next.ops
     /\ courseLog' = Append(courseLog, Event(ev, op)) \o StartEvents(next.ops)
     /\ paths' = paths \o UploadPaths(next.ops)
     /\ courseAlerts' = IF next.ended
                          THEN Append(alerts, Alert("success", 0, 0, << >>))
                          ELSE alerts
     /\ courseCalls' = IF next.ended THEN CallsOnSuccess(courseCalls) ELSE courseCalls
     /\ courseLoading' = IF next.ended THEN FALSE ELSE courseLoading

\* (mutant) the finally block is missing: setLoading(false) is the last
\* statement of the try block
AbortNoFinally(op) ==
  /\ courseReqs' = courseReqs \ { op }
  /\ courseLog' = Append(courseLog, Event("fail", op))
  /\ UNCHANGED paths
  /\ courseAlerts' = Append(courseAlerts, Alert("failed", 0, 0, << >>))
  /\ courseCalls' = CallsOnFailure(courseCalls)
  /\ courseLoading' = courseLoading

\* handleCreate resumes with an error thrown to its outer catch block
Abort(op) ==
  /\ courseReqs' = courseReqs \ { op }
  /\ courseLog' = Append(courseLog, Event("fail", op))
  /\ UNCHANGED paths
  /\ courseAlerts' = Append(courseAlerts, Alert("failed", 0, 0, << >>))
  /\ courseCalls' = CallsOnFailure(courseCalls)
  /\ courseLoading' = FALSE

\* handleCreate up to its first await: the validation, setLoading(true), the
\* insert into 'courses'
handleCreate ==
  IF IsBlank(courseTitle)
    THEN /\ courseAlerts' = << Alert("title", 0, 0, << >>) >>
         /\ UNCHANGED << courseLoading, runLen, courseReqs, courseLog, paths,
                         courseCalls, courseRuns, now >>
    ELSE LET op == Op("course", 0, 0, Trim(courseTitle))
         IN /\ courseLoading' = TRUE
            /\ runLen' = Len(sections)
            /\ courseReqs' = courseReqs \cup { op }
            /\ courseLog' = << Event("start", op) >>
            /\ courseAlerts' = << >>
            /\ courseCalls' = << >>
            /\ courseRuns' = courseRuns + 1
            /\ paths' = << >>
            /\ UNCHANGED now

\* a press of the Create button: an enabled button calls handleCreate
PressCreate ==
  /\ courseRuns < MaxRuns
  /\ ~CreateDisabled
  /\ handleCreate
  /\ UNCHANGED << courseTitle, sections >>
  /\ UNCHANGED notCourseVars

\* a press of the Create button while it is disabled: the press is dropped
PressCreateDisabled ==
  /\ FormOpen
  /\ CreateDisabled
  /\ UNCHANGED courseVars
  /\ UNCHANGED notCourseVars

\* the insert into 'courses' answers
CourseInsertDone(op, ok) ==
  /\ op \in courseReqs /\ op.kind = "course"
  /\ IF ok THEN Proceed(op, "ok", courseAlerts) ELSE Abort(op)
  /\ UNCHANGED << courseTitle, sections, runLen, courseRuns, now >>
  /\ UNCHANGED notCourseVars

\* (mutant) a failed section insert is caught inside the section loop, which
\* goes on with the next section
SectionInsertDoneContinues(op, ok) ==
  /\ op \in courseReqs /\ op.kind = "section"
  /\ IF ok THEN Proceed(op, "ok", courseAlerts)
           ELSE Proceed([op EXCEPT !.l = Len(sections[op.s].lessons)], "fail",
                        Append(courseAlerts, Alert("failed", 0, 0, << >>)))
  /\ UNCHANGED << courseTitle, sections, runLen, courseRuns, now >>
  /\ UNCHANGED notCourseVars

\* the insert into 'course_sections' answers
SectionInsertDone(op, ok) ==
  /\ op \in courseReqs /\ op.kind = "section"
  /\ IF ok THEN Proceed(op, "ok", courseAlerts) ELSE Abort(op)
  /\ UNCHANGED << courseTitle, sections, runLen, courseRuns, now >>
  /\ UNCHANGED notCourseVars

\* the lesson's catch block: one alert with the lesson's title as it is now
LessonAlert(op) ==
  Append(courseAlerts, Alert("lesson", op.s, op.l, sections[op.s].lessons[op.l].title))

\* uploadVideo answers: with the public URL, and the lesson's insert is issued
\* with the lesson's title as it is now; or it throws (no session, a failed
\* upload) into the lesson's catch block
UploadDone(op, ok) ==
  /\ op \in courseReqs /\ op.kind = "upload"
  /\ IF ok
       THEN LET ins == Op("lesson", op.s, op.l, Trim(sections[op.s].lessons[op.l].title))
            IN /\ courseReqs' = (courseReqs \ { op }) \cup { ins }
               /\ courseLog' = courseLog \o << Event("ok", op), Event("start", ins) >>
               /\ UNCHANGED << courseAlerts, courseCalls, courseLoading, paths >>
       ELSE Proceed(op, "fail", LessonAlert(op))
  /\ UNCHANGED << courseTitle, sections, runLen, courseRuns, now >>
  /\ UNCHANGED notCourseVars

\* (mutant) the lesson's try block is missing: a failed lesson insert is thrown
\* to the outer catch block
LessonInsertDoneAborts(op, ok) ==
  /\ op \in courseReqs /\ op.kind = "lesson"
  /\ IF ok THEN Proceed(op, "ok", courseAlerts) ELSE Abort(op)
  /\ UNCHANGED << courseTitle, sections, runLen, courseRuns, now >>
  /\ UNCHANGED notCourseVars

\* the insert into 'course_lessons' answers
LessonInsertDone(op, ok) ==
  /\ op \in courseReqs /\ op.kind = "lesson"
  /\ IF ok THEN Proceed(op, "ok", courseAlerts)
           ELSE Proceed(op, "fail", LessonAlert(op))
  /\ UNCHANGED << courseTitle, sections, runLen, courseRuns, now >>
  /\ UNCHANGED notCourseVars

\* a millisecond passes: Date.now() reads one more.  The clock is followed from
\* the first uploadVideo call of a run of handleCreate on, while the run awaits
\* an answer; the clock value of that first call is the origin
Tick ==
  /\ courseReqs # {}
  /\ paths # << >>
  /\ now < MaxClock
  /\ now' = now + 1
  /\ UNCHANGED << courseTitle, sections, courseLoading, runLen, courseReqs,
                  courseLog, courseAlerts, courseCalls, courseRuns, paths >>
  /\ UNCHANGED notCourseVars

CourseNext ==
  \/ \E text \in Titles : SetCourseTitle(text)
  \/ handleAddSection
  \/ \E s \in 1..Len(sections) : handleAddLesson(s)
  \/ \E s \in 1..Len(sections), text \in Titles : SetSectionTitle(s, text)
  \/ \E s \in 1..Len(sections) : \E l \in 1..Len(sections[s].lessons), text \in Titles :
       SetLessonTitle(s, l, text)
  \/ \E s \in 1..Len(sections) : \E l \in 1..Len(sections[s].lessons) :
       handleVideoSelect(s, l)
  \/ PressCreate
  \/ PressCreateDisabled
  \/ \E op \in courseReqs, ok \in BOOLEAN : CourseInsertDone(op, ok)
  \/ \E op \in courseReqs, ok \in BOOLEAN : SectionInsertDone(op, ok)
  \/ \E op \in courseReqs, ok \in BOOLEAN : UploadDone(op, ok)
  \/ \E op \in courseReqs, ok \in BOOLEAN : LessonInsertDone(op, ok)
  \/ Tick

(***************************************************************************)
(* Properties of the Sidebar.                                              *)
(***************************************************************************)
\* two characters that are the same letter, whatever their case
SameLetter(x, y) == x = y \/ { x, y } = { "a", "A" } \/ { x, y } = { "b", "B" }

\* q occurs in name, case ignored
OccursIn(q, name) ==
  \E k \in 0..(Len(name) - Len(q)) : \A i \in 1..Len(q) : SameLetter(name[k + i], q[i])

\* the positions of the communities whose name the query occurs in
Matching == { i \in 1..Len(communities) : OccursIn(searchQuery, communities[i].name) }

\* C6: the displayed communities are exactly those whose name contains the
\* query, case ignored, in the fetched order; the empty query displays all.
C6_FilterCaseInsensitiveSubstring ==
  ~loading =>
    /\ Len(DisplayedCommunities) = Cardinality(Matching)
    /\ \A k \in 1..Len(DisplayedCommunities) :
         \E i \in Matching : /\ Cardinality({ j \in Matching : j < i }) = k - 1
                             /\ DisplayedCommunities[k] = communities[i]
    /\ (searchQuery = << >> => DisplayedCommunities = communities)

\* the query "Ab" displays "aB" and not "ba": a match that needs both cases
\* ignored, and a community filtered out before one that is kept
C6_Witness ==
  /\ ~loading
  /\ searchQuery = << "A", "b" >>
  /\ Len(communities) = 2
  /\ communities[1].name = << "b", "a" >>
  /\ communities[2].name = << "a", "b" >>
  /\ DisplayedCommunities = << communities[2] >>

\* C7 (as claimed): every change notification delivered while the Sidebar is
\* mounted and a user is signed in starts a fetch of that user's joined
\* communities, also when the user signed in after the Sidebar was mounted.
C7_EveryNoticeRefetches ==
  [][delivered' = delivered + 1 /\ mounted = "mounted" /\ user # NULL =>
       \E f \in fetches' \ fetches : f.user = user /\ f.phase = 1]_vars

\* the ids of the communities listed, in order
ListedIds == [ i \in 1..Len(communities) |-> communities[i].id ]

\* C10: while the Sidebar is mounted, its list is the answer to the fetch that
\* completed last, whole and nothing else, whatever the order the fetches were
\* started in.
C10_LastCompletedFetchWins ==
  mounted = "mounted" /\ done # << >> => ListedIds = done[Len(done)].data

\* two fetches overlapped and the one started first completed last, with another
\* answer: the list is its answer
C10_Witness ==
  /\ mounted = "mounted"
  /\ Len(done) = 2
  /\ done[1].id > done[2].id
  /\ done[1].data # done[2].data
  /\ done[1].data # << >>
  /\ ListedIds = done[2].data

\* the rows the third query returned to the fetch that completed last
LastRows == done[Len(done)].rows

\* C12: after a successful fetch, every community of the list carries as
\* member_count the number of the membership rows returned for it by the
\* fetch's third query, 0 when none was returned.
C12_MemberCountIsRowsReturned ==
  mounted = "mounted" /\ done # << >> =>
    \A i \in 1..Len(communities) :
      communities[i].member_count =
        Cardinality({ m \in LastRows : m[2] = communities[i].id })

\* a list with a community for which two rows were returned and one for which
\* none was: its membership ended between the first and the third query
C12_Witness ==
  /\ mounted = "mounted" /\ done # << >>
  /\ \E i, j \in 1..Len(communities) :
       /\ communities[i].member_count = 0
       /\ { m \in LastRows : m[2] = communities[i].id } = {}
       /\ communities[j].member_count = 2

\* C14 (as claimed): the loading indicator ends.  While the Sidebar is mounted,
\* loading eventually becomes false, whether the fetch succeeds, fails, or no
\* user is signed in; and once false it never becomes true again.
C14_LoadingEnds ==
  /\ [](mounted = "mounted" => <>(~loading \/ mounted = "unmounted"))
  /\ [][~loading => ~loading']_vars

\* C11 (as claimed): a fetch makes its first community the active one only if
\* none is selected: once the user has selected a community, it stays the active
\* one through every fetch (initial, user change, realtime-triggered) until the
\* user selects another.
C11_SelectionNeverReplaced ==
  selected # NULL => activeCommunityId = selected

(***************************************************************************)
(* Properties of CreatePostModal.                                          *)
(***************************************************************************)
\* C1: post submission is disabled while the content is empty after trimming or
\* a submission is in flight: no step taken from such a state starts an insert
\* into 'posts', and at most one insert of the modal is in flight at any time.
C1_PostDisabledStartsNoInsert ==
  /\ [](Len(postReqs) <= 1)
  /\ [][(Trim(content) = << >> \/ isLoading)
          => postStarted' = postStarted /\ Len(postReqs') <= Len(postReqs)]_vars

\* a press of Post was dropped while a submission with non-empty content was in
\* flight
C1_Witness ==
  /\ postPress = "dropped"
  /\ isLoading
  /\ Trim(content) # << >>
  /\ Len(postReqs) = 1

\* the fields of the form that handlePost resets
PostForm == << content, mediaUri, mediaType, postType >>
\* the step in which handlePost resumes with the insert's answer
PostAnswered == Len(postReqs') < Len(postReqs)

\* C16: handlePost leaves the form as it is on failure: neither the step in
\* which it submits the insert nor the step in which it resumes with a failed
\* insert changes any of content, mediaUri, mediaType, postType; the step in
\* which it resumes with a successful insert sets them to '' / null / 'none' /
\* 'General'.
C16_FormKeptOnFailure ==
  /\ [][postStarted' # postStarted => PostForm' = PostForm]_vars
  /\ [][PostAnswered =>
          IF postSucceeded' = postSucceeded
            THEN PostForm' = PostForm
            ELSE PostForm' = << << >>, NULL, "none", "General" >>]_vars

\* an insert has failed and the form still holds a text, a media and a type
\* that are not the initial ones
C16_Witness ==
  /\ postAlert = "Failed to create post. Please try again."
  /\ postReqs = << >>
  /\ postStarted = 1 /\ postSucceeded = 0
  /\ content = << " ", "a", " " >>
  /\ mediaUri = "file1" /\ mediaType = "image"
  /\ postType = "Question"

\* C17: the modal holds one media attachment and its two fields agree: mediaUri
\* is null exactly when mediaType is 'none', after any picking, removing and
\* submitting; and a pick that returns a file replaces the attachment by that
\* file, with the type the picker was opened for.
C17_MediaFieldsAgree ==
  /\ [](mediaUri = NULL <=> mediaType = "none")
  /\ [][Len(pickers') < Len(pickers) /\ << mediaUri, mediaType >>' # << mediaUri, mediaType >>
         => /\ mediaUri' \in MediaUris
            /\ \E i \in 1..Len(pickers) : mediaType' = pickers[i]]_vars

\* after a submission reset the form, a video was picked, and a picker for an
\* image that will replace it is open
C17_Witness ==
  /\ postSucceeded = 1
  /\ mediaUri = "file2" /\ mediaType = "video"
  /\ pickers = << "image" >>

(***************************************************************************)
(* Properties of CreateCourseModal.                                        *)
(***************************************************************************)
\* the place of an operation in the order of handleCreate's loops
KindRank(kind) == IF kind \in { "course", "section" } THEN 0
                  ELSE IF kind = "upload" THEN 1 ELSE 2
Before(e, f) ==
  \/ e.s < f.s
  \/ e.s = f.s /\ e.l < f.l
  \/ e.s = f.s /\ e.l = f.l /\ KindRank(e.kind) < KindRank(f.kind)

LogIdx == 1..Len(courseLog)
IsStart(i) == courseLog[i].ev = "start"
IsLessonOp(e) == e.kind \in { "upload", "lesson" }
\* the run of handleCreate the log belongs to has ended
RunEnded == courseLog # << >> /\ courseReqs = {}

\* C2: one run of handleCreate is strictly sequential: at most one remote
\* operation is in flight, an operation starts only when the one before it has
\* been answered, operations start in list order (sections in order, each
\* section's lessons in order), a lesson's operations start after its section's
\* insert succeeded, and a lesson's insert starts after its upload succeeded.
C2_StrictlySequential ==
  /\ Cardinality(courseReqs) <= 1
  /\ \A j \in LogIdx : IsStart(j) /\ j > 1 => courseLog[j - 1].ev \in { "ok", "fail" }
  /\ \A i, j \in LogIdx : IsStart(i) /\ IsStart(j) /\ i < j => Before(courseLog[i], courseLog[j])
  /\ \A j \in LogIdx : IsStart(j) /\ courseLog[j].kind # "course" =>
       \E i \in 1..(j - 1) : courseLog[i].ev = "ok" /\ courseLog[i].kind = "course"
  /\ \A j \in LogIdx : IsStart(j) /\ IsLessonOp(courseLog[j]) =>
       \E i \in 1..(j - 1) : /\ courseLog[i].ev = "ok"
                             /\ courseLog[i].kind = "section"
                             /\ courseLog[i].s = courseLog[j].s
  /\ \A j \in LogIdx : IsStart(j) /\ courseLog[j].kind = "lesson" =>
       /\ courseLog[j - 1].ev = "ok"
       /\ courseLog[j - 1].kind = "upload"
       /\ courseLog[j - 1].s = courseLog[j].s
       /\ courseLog[j - 1].l = courseLog[j].l

\* a run that ended after it inserted two lessons, uploads included
C2_Witness ==
  /\ RunEnded
  /\ Cardinality({ i \in LogIdx : courseLog[i].ev = "ok" /\ courseLog[i].kind = "lesson" }) = 2
  /\ Cardinality({ i \in LogIdx : courseLog[i].ev = "ok" /\ courseLog[i].kind = "section" }) = 2

\* a step in which handleCreate resumes with the answer to an operation, and the
\* events that step adds to the log: the answer first
Resumes == courseReqs # {} /\ courseLog' # courseLog
NewEvents == SubSeq(courseLog', Len(courseLog) + 1, Len(courseLog'))
Answer == NewEvents[1]

\* what the loops of handleCreate skip, in the words of the specification
BlankTitle(title) == \A i \in 1..Len(title) : title[i] = " "
LessonProcessed(s, l) ==
  ~BlankTitle(sections[s].lessons[l].title) /\ sections[s].lessons[l].videoUri # NULL
SectionProcessed(s) == ~BlankTitle(sections[s].title)

\* the lessons of section s after lesson l are all skipped
RestOfSectionSkipped(s, l) ==
  s > 0 => \A k \in (l + 1)..Len(sections[s].lessons) : ~LessonProcessed(s, k)

\* from the end of lesson l of section s (l = 0: none of its lessons yet), the
\* operation e is the next that the loops reach
GoesOnTo(s, l, e) ==
  \/ /\ e.kind = "upload" /\ s > 0 /\ e.s = s /\ e.l > l
     /\ LessonProcessed(s, e.l)
     /\ \A k \in (l + 1)..(e.l - 1) : ~LessonProcessed(s, k)
  \/ /\ e.kind = "section" /\ e.l = 0 /\ e.s > s /\ e.s <= runLen
     /\ SectionProcessed(e.s)
     /\ RestOfSectionSkipped(s, l)
     /\ \A t \in (s + 1)..(e.s - 1) : ~SectionProcessed(t)

\* from the end of lesson l of section s, the loops reach their end
GoesOnToEnd(s, l) ==
  /\ RestOfSectionSkipped(s, l)
  /\ \A t \in (s + 1)..runLen : ~SectionProcessed(t)

\* the step goes on from the answered operation to the next one, which it
\* starts, or to the successful end of handleCreate
StepGoesOn ==
  \/ /\ Len(NewEvents) = 2
     /\ NewEvents[2].ev = "start"
     /\ GoesOnTo(Answer.s, Answer.l, NewEvents[2])
     /\ courseReqs' = { Op(NewEvents[2].kind, NewEvents[2].s, NewEvents[2].l, NewEvents[2].title) }
     /\ courseLoading'
     /\ courseCalls' = courseCalls
  \/ /\ Len(NewEvents) = 1
     /\ GoesOnToEnd(Answer.s, Answer.l)
     /\ courseReqs' = {}
     /\ ~courseLoading'
     /\ courseAlerts'[Len(courseAlerts')].kind = "success"

AlertKinds(alerts) == [ i \in 1..Len(alerts) |-> alerts[i].kind ]
CountAlerts(kind) == Cardinality({ i \in 1..Len(courseAlerts) : courseAlerts[i].kind = kind })

\* C3: when a lesson's upload or insert fails, the failure is reported with one
\* alert that names the lesson, nothing is thrown to the outer catch block, and
\* handleCreate goes on with the next lesson or section that it does not skip,
\* or ends successfully when there is none.
C3_LessonFailureReportedRunGoesOn ==
  [][Resumes /\ Answer.ev = "fail" /\ IsLessonOp(Answer) =>
       /\ Len(courseAlerts') >= Len(courseAlerts) + 1
       /\ SubSeq(courseAlerts', 1, Len(courseAlerts) + 1) =
            Append(courseAlerts, [kind |-> "lesson", s |-> Answer.s, l |-> Answer.l,
                                  title |-> sections[Answer.s].lessons[Answer.l].title])
       /\ \A i \in (Len(courseAlerts) + 2)..Len(courseAlerts') :
            courseAlerts'[i].kind = "success"
       /\ StepGoesOn]_vars

\* a run that ended successfully although the upload of lesson 1 of section 1
\* failed: lesson 2 of section 1 and then section 2 were still handled
C3_Witness ==
  /\ RunEnded
  /\ CountAlerts("lesson") = 1 /\ CountAlerts("success") = 1 /\ CountAlerts("failed") = 0
  /\ \E i \in LogIdx : /\ courseLog[i].ev = "fail" /\ courseLog[i].kind = "upload"
                       /\ courseLog[i].s = 1 /\ courseLog[i].l = 1
                       /\ i + 2 \in LogIdx
                       /\ courseLog[i + 1].kind = "upload" /\ courseLog[i + 1].l = 2
                       /\ \E j \in LogIdx : j > i /\ courseLog[j].kind = "section"
                                                  /\ courseLog[j].s = 2

\* C4 (as claimed): handleCreate never inserts a course_sections row for a
\* section whose trimmed title is empty, never uploads or inserts anything for a
\* lesson whose trimmed title is empty, never processes a lesson of a skipped
\* section, and still processes every other section.
C4_NeverInsertsEmptyTitle ==
  /\ [](\A i \in LogIdx : IsStart(i) /\ courseLog[i].kind = "section" =>
          courseLog[i].title # << >>)
  /\ [](\A i \in LogIdx : IsStart(i) /\ IsLessonOp(courseLog[i]) =>
          courseLog[i].title # << >>)
  /\ [](\A i \in LogIdx : IsLessonOp(courseLog[i]) =>
          \E j \in 1..(i - 1) : courseLog[j].kind = "section" /\ courseLog[j].s = courseLog[i].s)
  /\ [][Resumes /\ Answer.ev = "ok" /\ Answer.kind # "upload" => StepGoesOn]_vars

\* C5: a lesson without a selected video is skipped: no upload, no insert and
\* no alert is made for it, and the lesson loop goes on past it to the next
\* lesson of the section that has a title and a video.
C5_LessonWithoutVideoSkipped ==
  /\ [](\A i \in LogIdx : IsLessonOp(courseLog[i]) =>
          sections[courseLog[i].s].lessons[courseLog[i].l].videoUri # NULL)
  /\ [](\A i \in 1..Len(courseAlerts) : courseAlerts[i].kind = "lesson" =>
          sections[courseAlerts[i].s].lessons[courseAlerts[i].l].videoUri # NULL)
  /\ [][Resumes /\ Answer.s > 0 /\ ~(Answer.ev = "fail" /\ Answer.kind = "section")
               /\ ~(Answer.ev = "ok" /\ Answer.kind = "upload") =>
          LET next == IF Len(NewEvents) > 1 THEN NewEvents[2] ELSE Answer
              stays == Len(NewEvents) > 1 /\ next.kind = "upload" /\ next.s = Answer.s
              upto == IF stays THEN next.l - 1 ELSE Len(sections[Answer.s].lessons)
          IN /\ \A k \in (Answer.l + 1)..upto :
                  BlankTitle(sections[Answer.s].lessons[k].title)
                    \/ sections[Answer.s].lessons[k].videoUri = NULL
             /\ \A k \in (Answer.l + 1)..Len(sections[Answer.s].lessons) :
                  sections[Answer.s].lessons[k].videoUri = NULL =>
                    ~(stays /\ next.l = k)]_vars

\* a run that ended: lesson 1 of section 1 has a title and no video and was
\* passed over, lesson 2 was uploaded and inserted
C5_Witness ==
  /\ RunEnded
  /\ Len(sections) >= 1 /\ Len(sections[1].lessons) = 2
  /\ ~BlankTitle(sections[1].lessons[1].title)
  /\ sections[1].lessons[1].videoUri = NULL
  /\ \A i \in LogIdx : ~(IsLessonOp(courseLog[i]) /\ courseLog[i].l = 1)
  /\ \E i \in LogIdx : courseLog[i].ev = "ok" /\ courseLog[i].kind = "lesson" /\ courseLog[i].l = 2
  /\ CountAlerts("lesson") = 0

\* C8: no retry and no rollback: the step in which a section insert fails issues
\* no operation at all (no delete, no repeated insert), keeps every operation
\* logged before it, shows one failure alert and calls no callback; the run has
\* ended with it, so the remaining sections are not processed; and no insert is
\* ever issued twice.
C8_SectionFailureNoRollbackNoRetry ==
  /\ [][Resumes /\ Answer.ev = "fail" /\ Answer.kind = "section" =>
          /\ courseLog' = Append(courseLog, Answer)
          /\ courseReqs' = {}
          /\ AlertKinds(courseAlerts') = Append(AlertKinds(courseAlerts), "failed")
          /\ courseCalls' = courseCalls
          /\ ~courseLoading']_vars
  /\ [](\A i \in LogIdx : courseLog[i].ev = "fail" /\ courseLog[i].kind = "section" =>
          /\ i = Len(courseLog)
          /\ courseReqs = {}
          /\ CountAlerts("failed") = 1 /\ CountAlerts("success") = 0)
  /\ [](\A i, j \in LogIdx :
          /\ IsStart(i) /\ IsStart(j)
          /\ courseLog[i].kind = courseLog[j].kind
          /\ courseLog[i].s = courseLog[j].s /\ courseLog[i].l = courseLog[j].l
          => i = j)

\* the insert of section 2 failed after the course, section 1 and a lesson of
\* section 1 had been inserted
C8_Witness ==
  /\ RunEnded
  /\ courseLog[Len(courseLog)].ev = "fail"
  /\ courseLog[Len(courseLog)].kind = "section"
  /\ courseLog[Len(courseLog)].s = 2
  /\ \E i \in LogIdx : courseLog[i].ev = "ok" /\ courseLog[i].kind = "lesson" /\ courseLog[i].s = 1
  /\ runLen = 2

\* C13 (as claimed): within one run of handleCreate, no two lessons whose upload
\* was started receive the same file path.
C13_UploadPathsUnique ==
  \A i, j \in 1..Len(paths) : i # j => paths[i].path # paths[j].path

(***************************************************************************)
(* Properties of both modals.                                              *)
(***************************************************************************)
\* the inserts of the last run of handleCreate that decide its success
CourseInsertsSucceeded ==
  /\ \E i \in LogIdx : courseLog[i].ev = "ok" /\ courseLog[i].kind = "course"
  /\ \A i \in LogIdx : courseLog[i].kind \in { "course", "section" } => courseLog[i].ev # "fail"

\* C9: the caller's callbacks are called once per successful submission and
\* never otherwise: handlePost has called onPost then onDismiss once for each
\* insert that succeeded; handleCreate has called onSuccess then onDismiss once
\* its run has ended with the course insert and every attempted section insert
\* succeeded, and nothing before that, nor after a failure of those inserts,
\* nor without passing validation.
C9_CallbacksOncePerSuccess ==
  /\ Len(postCalls) = 2 * postSucceeded
  /\ \A i \in 1..postSucceeded :
       postCalls[2 * i - 1] = "onPost" /\ postCalls[2 * i] = "onDismiss"
  /\ courseCalls = IF RunEnded /\ CourseInsertsSucceeded
                     THEN << "onSuccess", "onDismiss" >> ELSE << >>

\* a run of handleCreate ended with its callbacks called although a lesson failed
C9_Witness ==
  /\ RunEnded
  /\ CourseInsertsSucceeded
  /\ courseCalls = << "onSuccess", "onDismiss" >>
  /\ CountAlerts("lesson") = 1

\* C15: in both modals the in-flight flag is true exactly while a submission of
\* the modal is running, that is while a remote call of it awaits its answer:
\* the flag is set in the step that issues the first call, is false again after
\* every outcome, and no press made while the validated field is blank sets it.
C15_FlagExactlyWhileRunning ==
  /\ [](isLoading <=> Len(postReqs) > 0)
  /\ [](courseLoading <=> courseReqs # {})
  /\ [][IsBlank(content) /\ ~isLoading => ~isLoading']_vars
  /\ [][IsBlank(courseTitle) /\ ~courseLoading => ~courseLoading']_vars

\* a run of handleCreate has ended in its outer catch block, after a section
\* insert failed, and the flag is false
C15_Witness ==
  /\ courseRuns = 1
  /\ courseReqs = {}
  /\ ~courseLoading
  /\ courseLog # << >>
  /\ courseLog[Len(courseLog)].ev = "fail"
  /\ courseLog[Len(courseLog)].kind = "section"

(***************************************************************************)
(* Specifications.  The components share no state: each specification      *)
(* follows one of them and leaves the others as constructed.               *)
(***************************************************************************)
\* a Sidebar that is never mounted
SidebarParked == SidebarInit /\ user = NULL /\ members = {}

InitPost == PostInit /\ CourseInit /\ SidebarParked
SpecPost == InitPost /\ [][PostNext]_vars

InitCourse == CourseInit /\ PostInit /\ SidebarParked
SpecCourse == InitCourse /\ [][CourseNext]_vars

\* the two modals: a behaviour follows the one it touches first
ModalsNext ==
  \/ CourseInit /\ PostNext
  \/ PostInit /\ CourseNext
SpecModals == InitCourse /\ [][ModalsNext]_vars

InitSidebar == SidebarInit /\ CourseInit /\ PostInit
SpecSidebar == InitSidebar /\ [][SidebarNext]_vars

\* the Sidebar with its scheduling: React runs the effects of a rendered
\* component, and the backend answers every query, with rows or with an error.
\* Nothing makes a user sign in, a row change or a press happen
SidebarFairness ==
  /\ WF_vars(Mount)
  /\ WF_vars(\E f \in fetches, ok \in BOOLEAN : FetchMembership(f, ok))
  /\ WF_vars(\E f \in fetches, ok \in BOOLEAN : \E rows \in Orders(f.ids) :
               FetchCommunities(f, ok, rows))
  /\ WF_vars(\E f \in fetches, ok \in BOOLEAN : FetchMembers(f, ok))
SpecSidebarLive == InitSidebar /\ [][SidebarNext]_vars /\ SidebarFairness

\* the Sidebar after a fetch that answered any list of communities; the search
\* field is then typed into
InitFilter ==
  /\ PostInit /\ CourseInit
  /\ user = "u1"
  /\ mounted = "mounted"
  /\ communities \in CommunityLists(MaxListLen)
  /\ searchQuery = << >>
  /\ loading = FALSE
  /\ activeCommunityId = NULL
  /\ selected = NULL
  /\ channel = [on |-> TRUE, user |-> "u1", active |-> NULL]
  /\ fetches = {}
  /\ nextFetch = 2
  /\ members = {}
  /\ notices = 0
  /\ delivered = 0
  /\ done = << >>
  /\ sidebarAlert = NULL
FilterNext == \E text \in Strings(MaxStrLen) : SetSearchQuery(text)
SpecFilter == InitFilter /\ [][FilterNext]_vars

=============================================================================
